---- MODULE Spec2Model ----
(***************************************************************************)
(* Ursa Minor: the request pipeline of the Hypixel API proxy.              *)
(*                                                                         *)
(* One request runs main::respond_to: it counts the user agent in the      *)
(* store, authenticates (mojang::require_login), translates the path by    *)
(* the rule table, runs the limiter's pipeline on the store, calls the     *)
(* upstream and decorates the response (SaveOnExit::save_to).             *)
(* The paths under /_meta/ run meta::respond_to_meta instead, the root is  *)
(* redirected and every other path is answered 404.  A request yields at   *)
(* its awaits: the user-agent ZINCRBY, the session-server call, the body   *)
(* of the session server's reply, the limiter pipeline, the upstream call  *)
(* and the GETs of the statistics.  Between two awaits its code runs as    *)
(* one step, and the steps of other requests and of the clock fall between *)
(* any two of its steps.                                                   *)
(*                                                                         *)
(* The body of a forwarded response is the stream of the upstream's body   *)
(* (hypixel.rs:131): it reaches the caller whole, or cut short with an     *)
(* error when the upstream's body fails after its head.                    *)
(*                                                                         *)
(* The store is Redis.  Every request of the process uses a clone of one   *)
(* ConnectionManager (main.rs:280-289), one multiplexed connection, and a  *)
(* pipeline is written to it as one packed block, so the four commands of  *)
(* the limiter pipeline run at the store without a command of another      *)
(* request between them.  The pipeline is no transaction: when it fails,   *)
(* the store has run its commands or it has not, and nothing is undone.    *)
(*                                                                         *)
(* A response leaves the process in the step after the one that produced   *)
(* it.                                                                     *)
(*                                                                         *)
(* The clock counts seconds; MillisecondTimestamp values are the clock     *)
(* times 1000.  A key with an expiry is removed by the clock step that     *)
(* reaches its deadline.                                                   *)
(***************************************************************************)
EXTENDS Integers, Sequences, FiniteSets, TLC

\* ---------------------------------------------------------------- bounds
\* Requests received in one run.
MaxRequests == 3
\* Last second of the clock.
MaxNow == 2
\* Longest request path after /v1/hypixel/, in characters, of TranslateSpec.
MaxPathLen == 5

\* ---------------------------------------------------------- configuration
\* URSA_RATE_LIMIT_TIMEOUT, seconds.
rate_limit_lifespan == 2
\* URSA_RATE_LIMIT_BUCKET.
rate_limit_bucket == 1
\* URSA_TOKEN_LIFESPAN, seconds.
default_token_duration == 1
\* u64::MAX of the synthetic principals.  TLC's integers have 32 bits, so the
\* largest of them stands for it; the clock stays far below it.
U64_MAX == 2147483647
\* Duration::as_millis of one second.
MillisPerSecond == 1000

\* The process secret (URSA_SECRET) and a key that is not the secret.
key == "URSA_SECRET"
OtherKey == "not-the-secret"

\* Uuid::from_u128(0) and the id the session server reports for the player.
\* The values URSA_HYPIXEL_TOKEN takes: the API key of the upstream.
ApiKeys == {"hypixel-key-A", "hypixel-key-B"}

NullUuid == "00000000-0000-0000-0000-000000000000"
PlayerUuid == "11111111-1111-1111-1111-111111111111"
PlayerName == "player"
\* The name the session server reports for the player.
ProfileName == "Player"

VARIABLES
    allow_anonymous,      \* GlobalApplicationContext.allow_anonymous
    hypixel_token,        \* GlobalApplicationContext.hypixel_token
    now,                  \* the clock, seconds
    ratelimit,            \* store: the rate buckets, by key
    hypixel_request,      \* store: sorted sets hypixel:request:<http_path>
    hypixel_accumulated,  \* store: counters hypixel:accumulated:<http_path>
    user_agent,           \* store: sorted set user-agent
    req,                  \* the requests in flight, by slot
    received,             \* requests received so far
    client_tokens,        \* tokens the clients got in x-ursa-token
    bucket_log,           \* history: per bucket, the pipelines the store ran
                          \* since the key was created: the replies, the usage
                          \* in them, whether the request read them and
                          \* whether it was rejected
    bucket_first_use      \* history: per bucket, the second the key was
                          \* created in

vars == <<allow_anonymous, hypixel_token, now, ratelimit, hypixel_request,
          hypixel_accumulated, user_agent, req, received, client_tokens,
          bucket_log, bucket_first_use>>

\* ------------------------------------------------------------- Option<T>
None == <<>>
Some(x) == <<x>>
Unwrap(o) == o[1]

\* ---------------------------------------------------- util.rs: Obscure
\* A Debug for Obscure that renders the wrapped value.
debug_fmt_transparent(self) == self

\* impl Debug for Obscure<T, L>: writes L, ".." for the API key.
debug_fmt(self) == ".."

\* The derived Debug of GlobalApplicationContext with the given API key, as
\* logged at launch: the fields of the configuration the model has.
debug_config(token) ==
    [hypixel_token |-> debug_fmt(token),
     allow_anonymous |-> allow_anonymous]

\* ------------------------------------------------- util.rs: timestamps
\* MillisecondTimestamp::from(SystemTime::now())
MillisecondTimestampNow == now * MillisPerSecond

\* An Add that adds the seconds of the Duration to the milliseconds.
TimestampAddSeconds(self, rhs_secs) == self + rhs_secs

\* impl Add<Duration> for MillisecondTimestamp; the Duration is given in seconds
TimestampAdd(self, rhs_secs) == self + rhs_secs * MillisPerSecond

\* u64::to_string
DigitChars == <<"0", "1", "2", "3", "4", "5", "6", "7", "8", "9">>
RECURSIVE to_string(_)
to_string(n) ==
    IF n < 10 THEN <<DigitChars[n + 1]>>
    ELSE to_string(n \div 10) \o <<DigitChars[(n % 10) + 1]>>

\* ------------------------------------------------- mojang.rs: principals
JWTPrincipal(id, name, valid_until, valid_since) ==
    [id |-> id, name |-> name, valid_until |-> valid_until, valid_since |-> valid_since]

\* The principal of anonymous mode.
AnonymousPrincipal == JWTPrincipal(NullUuid, "CoolGuy123", U64_MAX, 0)

\* The principal of the GenerateToken command.
GeneratedPrincipal == JWTPrincipal(NullUuid, "generated", U64_MAX, 0)

\* The integrity tag of a token: the HMAC of the claims under a key.
Hmac(claims, k) == [key |-> k, message |-> claims]

\* sign_with_key that makes the tag with another key than the one it is given.
sign_with_wrong_key(principal, k) == [claims |-> principal, tag |-> Hmac(principal, "wrong")]

\* SignWithKey::sign_with_key
sign_with_key(principal, k) == [claims |-> principal, tag |-> Hmac(principal, k)]

\* VerifyWithKey::verify_with_key: the claims, or an error
verify_with_key(token, k) ==
    IF token.tag = Hmac(token.claims, k)
    THEN [ok |-> TRUE, claims |-> token.claims]
    ELSE [ok |-> FALSE, claims |-> token.claims]

\* The bucket of a principal.
ratelimit_key(principal) == <<"ratelimit", principal.id>>

\* ------------------------------------------------------ main.rs: responses
\* The body is what the caller reads of it; body_error says that the stream
\* of the body ends with an error instead of its end.  A body made of a text
\* (Body::from, Body::empty) ends without one.
Response(status, body) ==
    [status |-> status, location |-> None,
     x_ursa_token |-> None, x_ursa_expires |-> None, body |-> body,
     body_error |-> FALSE]

\* The body is the status code and the error text: a tuple of the text and the
\* value formatted into it.
make_error(status_code, error_text) == Response(status_code, error_text)

\* The response wrap_error builds for an Err of respond_to.
InternalError == Response(500, <<"500 Internal Error", "Error id">>)

\* ------------------------------------------------- mojang.rs: SaveOnExit
DontSave == [kind |-> "DontSave", timestamp |-> None, principal |-> None]
SaveExpires(timestamp) == [kind |-> "SaveExpires", timestamp |-> Some(timestamp), principal |-> None]
Save(principal) == [kind |-> "Save", timestamp |-> None, principal |-> Some(principal)]

\* save_to that leaves out the expiry of a new token.
save_to_token_only(self, response) ==
    IF self.kind = "Save"
    THEN [response EXCEPT
            !.x_ursa_token = Some(sign_with_key(Unwrap(self.principal), key))]
    ELSE IF self.kind = "SaveExpires"
    THEN [response EXCEPT !.x_ursa_expires = Some(to_string(Unwrap(self.timestamp)))]
    ELSE response

save_to(self, response) ==
    IF self.kind = "Save"
    THEN [response EXCEPT
            !.x_ursa_token = Some(sign_with_key(Unwrap(self.principal), key)),
            !.x_ursa_expires = Some(to_string(Unwrap(self.principal).valid_until))]
    ELSE IF self.kind = "SaveExpires"
    THEN [response EXCEPT !.x_ursa_expires = Some(to_string(Unwrap(self.timestamp)))]
    ELSE response

\* ------------------------------------------- mojang.rs: authentication
\* verify_existing_login with both bounds of the window exclusive.
verify_existing_login_exclusive(token, right_now) ==
    IF token = None
    THEN [ok |-> TRUE, value |-> None]
    ELSE LET verified == verify_with_key(Unwrap(token), key)
             claims == verified.claims
         IN  IF ~verified.ok
             THEN [ok |-> FALSE, value |-> None]
             ELSE IF claims.valid_since >= right_now \/ claims.valid_until <= right_now
             THEN [ok |-> FALSE, value |-> None]
             ELSE [ok |-> TRUE, value |-> Some(claims)]

\* verify_existing_login: Ok(None) without the header, Err for a tag that does
\* not verify or a violated window, Ok(Some(claims)) otherwise.
verify_existing_login(token, right_now) ==
    IF token = None
    THEN [ok |-> TRUE, value |-> None]
    ELSE LET verified == verify_with_key(Unwrap(token), key)
             claims == verified.claims
         IN  IF ~verified.ok
             THEN [ok |-> FALSE, value |-> None]
             ELSE IF claims.valid_since > right_now \/ claims.valid_until < right_now
             THEN [ok |-> FALSE, value |-> None]
             ELSE [ok |-> TRUE, value |-> Some(claims)]

\* serde_json::from_reader::<_, MojangUser>: the id and the name of the body
\* of a 200 reply of the session server.
MojangUser(profile) == [id |-> profile.id, name |-> profile.name]

\* ------------------------------------------------ hypixel.rs: the rules
\* Paths are sequences of characters.
rules ==
    << [http_path |-> <<"p">>, hypixel_path |-> "https://api.hypixel.net/p",
        query_arguments |-> <<"uuid">>],
       [http_path |-> <<"p", "/">>, hypixel_path |-> "https://api.hypixel.net/q",
        query_arguments |-> <<>>],
       [http_path |-> <<"s">>, hypixel_path |-> "https://api.hypixel.net/s",
        query_arguments |-> <<"a", "b">>] >>

accumulated_statistics_key(rule) == <<"hypixel:accumulated", rule.http_path>>

request_statistics_key(rule) == <<"hypixel:request", rule.http_path>>

\* str::strip_prefix
strip_prefix(path, prefix) ==
    IF Len(prefix) <= Len(path) /\ SubSeq(path, 1, Len(prefix)) = prefix
    THEN Some(SubSeq(path, Len(prefix) + 1, Len(path)))
    ELSE None

\* str::split('/')
RECURSIVE split(_)
split(s) ==
    IF \A i \in 1..Len(s) : s[i] # "/"
    THEN <<s>>
    ELSE LET i == CHOOSE j \in 1..Len(s) : s[j] = "/" /\ \A h \in 1..(j - 1) : s[h] # "/"
         IN  <<SubSeq(s, 1, i - 1)>> \o split(SubSeq(s, i + 1, Len(s)))

IsNotEmpty(it) == it # <<>>

\* prefix.split('/').filter(|it| !it.is_empty()).collect()
path_parts(prefix) == SelectSeq(split(prefix), IsNotEmpty)

\* The parts joined by ':'.
RECURSIVE diagnostics_key(_)
diagnostics_key(parts) ==
    IF parts = <<>> THEN <<>>
    ELSE IF Len(parts) = 1 THEN parts[1]
    ELSE parts[1] \o <<":">> \o diagnostics_key(Tail(parts))

\* parse_with_params that appends the pairs last to first.
parse_with_params_reversed(input, query_parts) ==
    [base |-> input,
     query |-> [j \in 1..Len(query_parts) |-> query_parts[Len(query_parts) + 1 - j]]]

\* Url::parse_with_params: the template and the pairs in order.
parse_with_params(input, query_parts) == [base |-> input, query |-> query_parts]

\* translate whose error for a missing argument names the rule's first
\* argument.
translate_names_first(i, prefix) ==
    LET rule == rules[i]
        parts == path_parts(prefix)
        n == Len(rule.query_arguments)
    IN  IF Len(parts) < n
        THEN [kind |-> "error", rule |-> i, url |-> None, parts |-> parts,
              response |-> make_error(400, <<"Missing query argument", rule.query_arguments[1]>>)]
        ELSE IF Len(parts) > n
        THEN [kind |-> "error", rule |-> i, url |-> None, parts |-> parts,
              response |-> make_error(400, <<"Superfluous query argument", parts[n + 1]>>)]
        ELSE [kind |-> "url", rule |-> i, parts |-> parts,
              url |-> Some(parse_with_params(rule.hypixel_path,
                          [j \in 1..n |-> <<rule.query_arguments[j], parts[j]>>])),
              response |-> make_error(0, <<>>)]

\* translate without the check for superfluous segments: the segments after
\* the rule's last argument are ignored.
translate_superfluous_ignored(i, prefix) ==
    LET rule == rules[i]
        parts == path_parts(prefix)
        n == Len(rule.query_arguments)
    IN  IF Len(parts) < n
        THEN [kind |-> "error", rule |-> i, url |-> None, parts |-> parts,
              response |-> make_error(400, <<"Missing query argument", rule.query_arguments[Len(parts) + 1]>>)]
        ELSE [kind |-> "url", rule |-> i, parts |-> parts,
              url |-> Some(parse_with_params(rule.hypixel_path,
                          [j \in 1..n |-> <<rule.query_arguments[j], parts[j]>>])),
              response |-> make_error(0, <<>>)]

\* The body of the loop for a rule whose http_path is a prefix of the path.
translate(i, prefix) ==
    LET rule == rules[i]
        parts == path_parts(prefix)
        n == Len(rule.query_arguments)
    IN  IF Len(parts) < n
        THEN [kind |-> "error", rule |-> i, url |-> None, parts |-> parts,
              response |-> make_error(400, <<"Missing query argument", rule.query_arguments[Len(parts) + 1]>>)]
        ELSE IF Len(parts) > n
        THEN [kind |-> "error", rule |-> i, url |-> None, parts |-> parts,
              response |-> make_error(400, <<"Superfluous query argument", parts[n + 1]>>)]
        ELSE [kind |-> "url", rule |-> i, parts |-> parts,
              url |-> Some(parse_with_params(rule.hypixel_path,
                          [j \in 1..n |-> <<rule.query_arguments[j], parts[j]>>])),
              response |-> make_error(0, <<>>)]

\* The loop going on to the next rule when a rule with a matching prefix
\* fails to translate the path.
RECURSIVE match_rules_fallthrough(_, _)
match_rules_fallthrough(i, path) ==
    IF i > Len(rules)
    THEN [kind |-> "none", rule |-> 0, url |-> None, parts |-> <<>>,
          response |-> make_error(0, <<>>)]
    ELSE LET prefix == strip_prefix(path, rules[i].http_path)
         IN  IF prefix # None /\ translate(i, Unwrap(prefix)).kind = "url"
             THEN translate(i, Unwrap(prefix))
             ELSE match_rules_fallthrough(i + 1, path)

\* for rule in &global_application_config.rules, from rule i on
RECURSIVE match_rules(_, _)
match_rules(i, path) ==
    IF i > Len(rules)
    THEN [kind |-> "none", rule |-> 0, url |-> None, parts |-> <<>>,
          response |-> make_error(0, <<>>)]
    ELSE LET prefix == strip_prefix(path, rules[i].http_path)
         IN  IF prefix # None THEN translate(i, Unwrap(prefix))
             ELSE match_rules(i + 1, path)

\* ----------------------------------------------------- the store (Redis)
\* A key of the keyspace holds None (no such key) or Some of a value and an
\* optional deadline, the second at which the key is removed.
StoredValue(value, expire_at) == [value |-> value, expire_at |-> expire_at]

\* EXPIRE key seconds without NX: sets the deadline of every existing key.
redis_expire(db, k, seconds) ==
    IF db[k] = None
    THEN [db |-> db, reply |-> 0]
    ELSE IF seconds <= 0
    THEN [db |-> [db EXCEPT ![k] = None], reply |-> 1]
    ELSE [db |-> [db EXCEPT ![k] = Some(StoredValue(Unwrap(db[k]).value, Some(now + seconds)))],
          reply |-> 1]

\* EXPIRE key seconds NX: sets the deadline of an existing key that has none.
\* The reply is 1 when the deadline was set and 0 when it was not: the key
\* does not exist, or it has a deadline already.
redis_expire_nx(db, k, seconds) ==
    IF db[k] = None \/ Unwrap(db[k]).expire_at # None
    THEN [db |-> db, reply |-> 0]
    ELSE IF seconds <= 0
    THEN [db |-> [db EXCEPT ![k] = None], reply |-> 1]
    ELSE [db |-> [db EXCEPT ![k] = Some(StoredValue(Unwrap(db[k]).value, Some(now + seconds)))],
          reply |-> 1]

\* INCRBY key delta: a key that does not exist counts from 0 and is created
\* without a deadline; the deadline of an existing key is kept.
redis_incr(db, k, delta) ==
    IF db[k] = None
    THEN [db |-> [db EXCEPT ![k] = Some(StoredValue(delta, None))], reply |-> delta]
    ELSE LET old == Unwrap(db[k])
         IN  [db |-> [db EXCEPT ![k] = Some(StoredValue(old.value + delta, old.expire_at))],
              reply |-> old.value + delta]

\* ZADD for ZINCRBY: the score of the member is set to delta.
redis_zadd(zset, member, delta) ==
    IF member \in DOMAIN zset
    THEN [zset |-> [zset EXCEPT ![member] = delta], reply |-> delta]
    ELSE [zset |-> zset @@ (member :> delta), reply |-> delta]

\* ZINCRBY on one sorted set, a function from its members to their scores.
redis_zincr(zset, member, delta) ==
    IF member \in DOMAIN zset
    THEN [zset |-> [zset EXCEPT ![member] = @ + delta], reply |-> zset[member] + delta]
    ELSE [zset |-> zset @@ (member :> delta), reply |-> delta]

\* The keys whose deadline the clock has reached are removed.
expire_keys(db, time) ==
    [k \in DOMAIN db |->
        IF db[k] # None /\ Unwrap(db[k]).expire_at # None /\ Unwrap(Unwrap(db[k]).expire_at) <= time
        THEN None ELSE db[k]]

\* resp.remove(1): the reply of EXPIRE.
bucket_usage_of_expire(resp) == resp[2]

\* resp.remove(0): the reply of ZINCRBY.
bucket_usage_of_zincr(resp) == resp[1]

\* resp.remove(2): the reply of INCR bucket among the three replies returned.
bucket_usage(resp) == resp[3]

\* The comparison with >= for >.
rate_limit_exceeded_at_threshold(bucket_usage_int) ==
    bucket_usage_int >= rate_limit_bucket /\ ~allow_anonymous

\* The comparison without the anonymous flag.
rate_limit_exceeded_for_anonymous(bucket_usage_int) ==
    bucket_usage_int > rate_limit_bucket

\* bucket_usage_int > rate_limit_bucket as i64 && !allow_anonymous
rate_limit_exceeded(bucket_usage_int) ==
    bucket_usage_int > rate_limit_bucket /\ ~allow_anonymous

\* ---------------------------------------------------------- the requests
Slots == {1, 2}

PrincipalIds == {NullUuid, PlayerUuid}

BucketKeys == {<<"ratelimit", id>> : id \in PrincipalIds}

RuleIds == 1..Len(rules)

\* The prefixes main::respond_to strips.  A request path is a sequence: the
\* prefix, one element, and then the characters after it.
HypixelPrefix == <<"/v1/hypixel/">>

MetaPrefix == <<"/_meta/">>

\* The paths after /v1/hypixel/ that the clients request.
Paths ==
    { <<"p", "/", "x">>,
      <<"p">>,
      <<"q">> }

\* The paths after /_meta/ that the clients request.
MetaPaths == { <<"version">>, <<"principal">>, <<"stats">>, <<"x">> }

\* The request paths: under /v1/hypixel/, under /_meta/, the root and a path
\* under no prefix.
Uris ==
    { HypixelPrefix \o path : path \in Paths }
    \cup { MetaPrefix \o meta_path : meta_path \in MetaPaths }
    \cup { <<"/">>, <<"/", "x">> }

\* The request path of the runs of many requests, and the request paths of
\* the runs of two requests.
ClientUris == { HypixelPrefix \o <<"p", "/", "x">> }

SessionUris ==
    { HypixelPrefix \o <<"p", "/", "x">>,
      MetaPrefix \o <<"principal">>,
      MetaPrefix \o <<"stats">> }

\* A header value with a byte that is not visible ASCII.
OpaqueUserAgent == "ua/opaque-bytes"

\* HeaderValue::to_str: the value as a string, or an error when a byte of it
\* is not visible ASCII.
to_str(value) == [ok |-> value # OpaqueUserAgent, value |-> value]

\* The user-agent headers of the requests: none, a value, or a value that is
\* no string.
UserAgents == { None, Some("ua/1"), Some(OpaqueUserAgent) }

\* A principal of the player that is valid in second 1 alone: not yet valid
\* in second 0, expired in second 2.
WindowedPrincipal == JWTPrincipal(PlayerUuid, PlayerName, 1 * MillisPerSecond, 1 * MillisPerSecond)

\* The tokens clients present besides those the proxy gave them: the token of
\* the GenerateToken command, a token with a validity window, and a token
\* whose tag was made with another key.
PresentedTokens ==
    { sign_with_key(GeneratedPrincipal, key),
      sign_with_key(WindowedPrincipal, key),
      sign_with_key(GeneratedPrincipal, OtherKey) }

\* The credentials of a request: its x-ursa-token, x-ursa-username and
\* x-ursa-serverid headers.
Credentials(token, username, serverid) ==
    [token |-> token, username |-> username, serverid |-> serverid]

\* The credentials clients send: none, the identity headers alone, a token
\* alone, or a token together with the identity headers.
PresentedCredentials(tokens) ==
    { Credentials(None, None, None),
      Credentials(None, Some(PlayerName), Some("serverid")) }
    \cup { Credentials(Some(t), None, None) : t \in tokens }
    \cup { Credentials(Some(sign_with_key(WindowedPrincipal, key)),
                        Some(PlayerName), Some("serverid")) }

\* The credentials of the runs of many requests: the identity headers alone,
\* or a token alone, the token of the GenerateToken command or one the proxy
\* gave a client.
ClientCredentials(tokens) ==
    { Credentials(None, Some(PlayerName), Some("serverid")) }
    \cup { Credentials(Some(t), None, None) :
              t \in {sign_with_key(GeneratedPrincipal, key)} \cup tokens }

\* The credentials of the runs of two requests, besides the tokens the proxy
\* gave the clients: none, the identity headers, and the token of the
\* GenerateToken command.
SessionCredentials ==
    { Credentials(None, None, None),
      Credentials(None, Some(PlayerName), Some("serverid")),
      Credentials(Some(sign_with_key(GeneratedPrincipal, key)), None, None) }

\* The profiles the session server reports in the body of a 200 reply.
MojangProfiles == { [id |-> PlayerUuid, name |-> ProfileName] }

IdleRequest ==
    [pc |-> "idle", uri |-> <<>>, agent |-> None,
     token |-> None, username |-> None, serverid |-> None,
     path |-> <<>>, save |-> DontSave, principal |-> None,
     rule |-> 0, url |-> None, diagnostics_key |-> <<>>,
     mojang_calls |-> 0, upstream_calls |-> 0, upstream_request |-> None,
     hypixel_response |-> None,
     saved |-> 0, response |-> None]

\* The task of the request ends without handing a response over.
FinishWithoutResponse(rq, response) == [rq EXCEPT !.pc = "lost"]

Finish(rq, response) == [rq EXCEPT !.pc = "done", !.response = Some(response)]

\* return save.save_to(resp): the end of main::respond_to and of
\* respond_to_meta for a response produced after authentication.
return_saved(rq, resp) ==
    Finish([rq EXCEPT !.saved = @ + 1], save_to(rq.save, resp))

\* hypixel_respond_to that goes from the translation to the upstream call.
hypixel_respond_to_unlimited(rq0, save, principal) ==
    LET rq == [rq0 EXCEPT !.save = save, !.principal = Some(principal)]
        t == match_rules(1, rq.path)
    IN  IF t.kind = "none"
        THEN Finish(rq, make_error(404, <<"Unknown request path", rq.uri>>))
        ELSE IF t.kind = "error"
        THEN return_saved([rq EXCEPT !.rule = t.rule], t.response)
        ELSE [rq EXCEPT !.pc = "upstream", !.rule = t.rule, !.url = t.url,
                        !.diagnostics_key = diagnostics_key(t.parts),
                        !.upstream_calls = @ + 1]

\* hypixel::respond_to up to the pipeline, and the end of main::respond_to for
\* the responses produced there; Ok(None) falls through to the 404 of
\* main::respond_to, which names the whole request path.
hypixel_respond_to(rq0, save, principal) ==
    LET rq == [rq0 EXCEPT !.save = save, !.principal = Some(principal)]
        t == match_rules(1, rq.path)
    IN  IF t.kind = "none"
        THEN Finish(rq, make_error(404, <<"Unknown request path", rq.uri>>))
        ELSE IF t.kind = "error"
        THEN return_saved([rq EXCEPT !.rule = t.rule], t.response)
        ELSE [rq EXCEPT !.pc = "redis", !.rule = t.rule, !.url = t.url,
                        !.diagnostics_key = diagnostics_key(t.parts)]

\* respond_to_meta after require_login!: the principal, the statistics (up to
\* their pipeline) or the 404 of an unknown meta path, each through save_to.
respond_to_meta_authenticated(rq0, save, principal) ==
    LET rq == [rq0 EXCEPT !.save = save, !.principal = Some(principal)]
        meta_path == Unwrap(strip_prefix(rq.uri, MetaPrefix))
    IN  IF meta_path = <<"principal">>
        THEN return_saved(rq, Response(200, <<"principal", principal>>))
        ELSE IF meta_path = <<"stats">>
        THEN [rq EXCEPT !.pc = "stats"]
        ELSE return_saved(rq, make_error(404, <<"Unknown meta request", meta_path>>))

\* What follows require_login! in the function that used it.
authenticated(rq, save, principal) ==
    IF strip_prefix(rq.uri, MetaPrefix) # None
    THEN respond_to_meta_authenticated(rq, save, principal)
    ELSE hypixel_respond_to(rq, save, principal)

\* verify_login_attempt up to the call of the session server.
verify_login_attempt(rq) ==
    IF rq.username = None
    THEN Finish(rq, make_error(400, <<"Missing username to authenticate">>))
    ELSE IF rq.serverid = None
    THEN Finish(rq, make_error(400, <<"Missing serverid to authenticate">>))
    ELSE [rq EXCEPT !.pc = "mojang", !.mojang_calls = @ + 1]

\* require_login that renews a valid presented token: the principal is issued
\* again with a validity that ends a token lifetime from now.
require_login_renewing(rq0) ==
    IF allow_anonymous
    THEN authenticated(rq0, DontSave, AnonymousPrincipal)
    ELSE LET rq == rq0
             existing == verify_existing_login(rq.token, MillisecondTimestampNow)
         IN  IF ~existing.ok
             THEN Finish(rq, make_error(401, <<"Failed to verify JWT">>))
             ELSE IF existing.value # None
             THEN LET renewed == [Unwrap(existing.value) EXCEPT
                                    !.valid_until = TimestampAdd(MillisecondTimestampNow,
                                                                 default_token_duration)]
                  IN  authenticated(rq, Save(renewed), renewed)
             ELSE verify_login_attempt(rq)

\* require_login up to its first await, and what its caller does with its
\* result.
require_login(rq0) ==
    IF allow_anonymous
    THEN authenticated(rq0, DontSave, AnonymousPrincipal)
    ELSE LET rq == rq0
             existing == verify_existing_login(rq.token, MillisecondTimestampNow)
         IN  IF ~existing.ok
             THEN Finish(rq, make_error(401, <<"Failed to verify JWT">>))
             ELSE IF existing.value # None
             THEN authenticated(rq, SaveExpires(Unwrap(existing.value).valid_until),
                                Unwrap(existing.value))
             ELSE verify_login_attempt(rq)

\* The Location of the redirect of the root.
ProjectUrl == "https://github.com/NotEnoughUpdates/ursa-minor"

\* meta::debug_string
debug_string == <<"ursa-minor", "BUILD_VERSION", "FEATURES_STR">>

\* respond_to_meta up to require_login!: the version is answered to everyone.
respond_to_meta(rq, meta_path) ==
    IF meta_path = <<"version">>
    THEN Finish(rq, Response(200, debug_string))
    ELSE require_login(rq)

\* main::respond_to after the await of the user-agent ZINCRBY: the redirect of
\* the root, the meta paths, the proxied paths, and the 404 of every other
\* path.
respond_to(rq) ==
    IF rq.uri = <<"/">>
    THEN Finish(rq, [Response(302, <<>>) EXCEPT !.location = Some(ProjectUrl)])
    ELSE IF strip_prefix(rq.uri, MetaPrefix) # None
    THEN respond_to_meta(rq, Unwrap(strip_prefix(rq.uri, MetaPrefix)))
    ELSE IF strip_prefix(rq.uri, HypixelPrefix) # None
    THEN require_login([rq EXCEPT !.path = Unwrap(strip_prefix(rq.uri, HypixelPrefix))])
    ELSE Finish(rq, make_error(404, <<"Unknown request path", rq.uri>>))

\* The pipeline with one bucket for all principals.
send_packed_commands_one_bucket(rq) ==
    LET bucket == <<"ratelimit", NullUuid>>
        zincr == redis_zincr(hypixel_request[rq.rule], rq.diagnostics_key, 1)
        expire == redis_expire_nx(ratelimit, bucket, rate_limit_lifespan)
        incr == redis_incr(expire.db, bucket, 1)
    IN  [bucket |-> bucket,
         created |-> ratelimit[bucket] = None,
         hypixel_request |-> [hypixel_request EXCEPT ![rq.rule] = zincr.zset],
         ratelimit |-> incr.db,
         hypixel_accumulated |-> [hypixel_accumulated EXCEPT ![rq.rule] = @ + 1],
         resp |-> <<zincr.reply, expire.reply, incr.reply>>]

\* send_packed_commands(pipeline, 0, 3): the store runs ZINCRBY, EXPIRE NX,
\* INCR bucket and INCR accumulated in this order and the first three replies
\* are returned.  The result is the store after the commands and the replies.
send_packed_commands(rq) ==
    LET bucket == ratelimit_key(Unwrap(rq.principal))
        zincr == redis_zincr(hypixel_request[rq.rule], rq.diagnostics_key, 1)
        expire == redis_expire_nx(ratelimit, bucket, rate_limit_lifespan)
        incr == redis_incr(expire.db, bucket, 1)
    IN  [bucket |-> bucket,
         created |-> ratelimit[bucket] = None,
         hypixel_request |-> [hypixel_request EXCEPT ![rq.rule] = zincr.zset],
         ratelimit |-> incr.db,
         hypixel_accumulated |-> [hypixel_accumulated EXCEPT ![rq.rule] = @ + 1],
         resp |-> <<zincr.reply, expire.reply, incr.reply>>]

\* ---------------------------------------------------------------- actions
Init ==
    /\ allow_anonymous \in BOOLEAN
    /\ hypixel_token = "hypixel-key-A"
    /\ now = 0
    /\ ratelimit = [k \in BucketKeys |-> None]
    /\ hypixel_request = [i \in RuleIds |-> <<>>]
    /\ hypixel_accumulated = [i \in RuleIds |-> 0]
    /\ user_agent = <<>>
    /\ req = [r \in Slots |-> IdleRequest]
    /\ received = 0
    /\ client_tokens = {}
    /\ bucket_log = [k \in BucketKeys |-> <<>>]
    /\ bucket_first_use = [k \in BucketKeys |-> None]

StoreUnchanged ==
    UNCHANGED <<ratelimit, hypixel_request, hypixel_accumulated, bucket_log, bucket_first_use>>

ConfigUnchanged == UNCHANGED <<allow_anonymous, hypixel_token>>

\* No response waits to leave the process.
NoResponsePending == \A q \in Slots : req[q].pc # "done"

\* The guard of an arrival: the free slot with the lowest number takes the
\* request.
CanReceive(r) ==
    /\ NoResponsePending
    /\ req[r].pc = "idle"
    /\ \A q \in Slots : q < r => req[q].pc # "idle"

\* A request arrives: wrap_error and main::respond_to up to the await of the
\* ZINCRBY of the user agent.  No header but user-agent is read yet; a
\* user-agent that is no string is an error of respond_to.
Arrival(r, uri, credentials, agent) ==
    /\ CanReceive(r)
    /\ req' = [req EXCEPT ![r] =
                 LET rq == [IdleRequest EXCEPT !.uri = uri, !.agent = agent,
                                              !.token = credentials.token,
                                              !.username = credentials.username,
                                              !.serverid = credentials.serverid]
                 IN  IF agent # None /\ ~to_str(Unwrap(agent)).ok
                     THEN Finish(rq, InternalError)
                     ELSE [rq EXCEPT !.pc = "agent"]]
    /\ received' = received + 1
    /\ UNCHANGED <<now, user_agent, client_tokens>>
    /\ StoreUnchanged /\ ConfigUnchanged

\* A request of the clients arrives with one of the given paths, user agents
\* and credentials.
ReceiveFrom(r, uris, agents, presented) ==
    \E uri \in uris, agent \in agents, credentials \in presented :
        Arrival(r, uri, credentials, agent)

\* A request of the clients arrives for the proxied path, with the identity
\* headers or with a token of the proxy.
Receive(r) ==
    /\ received < MaxRequests
    /\ ReceiveFrom(r, ClientUris, {None}, ClientCredentials(client_tokens))

\* The member the ZINCRBY of the user agent counts: the header, "none"
\* without one.
user_agent_member(rq) ==
    IF rq.agent = None THEN "none" ELSE to_str(Unwrap(rq.agent)).value

\* The store counts the user agent and the task goes on: it routes the path,
\* authenticates and translates, up to the next await.
UserAgentCounted(r) ==
    /\ NoResponsePending
    /\ req[r].pc = "agent"
    /\ user_agent' = redis_zincr(user_agent, user_agent_member(req[r]), 1).zset
    /\ req' = [req EXCEPT ![r] = respond_to(req[r])]
    /\ UNCHANGED <<now, received, client_tokens>>
    /\ StoreUnchanged /\ ConfigUnchanged

\* The ZINCRBY of the user agent fails, before or after the store ran it: the
\* error leaves respond_to before any credential header is read, and
\* wrap_error answers it.
UserAgentFails(r) ==
    /\ NoResponsePending
    /\ req[r].pc = "agent"
    /\ \E ran \in BOOLEAN :
          user_agent' = IF ran
                        THEN redis_zincr(user_agent, user_agent_member(req[r]), 1).zset
                        ELSE user_agent
    /\ req' = [req EXCEPT ![r] = Finish(req[r], InternalError)]
    /\ UNCHANGED <<now, received, client_tokens>>
    /\ StoreUnchanged /\ ConfigUnchanged

\* The store ran the pipeline p: its keys, and the history of the bucket with
\* what the request made of the replies.
PipelineRan(p, read, rejected) ==
    /\ hypixel_request' = p.hypixel_request
    /\ ratelimit' = p.ratelimit
    /\ hypixel_accumulated' = p.hypixel_accumulated
    /\ bucket_log' = [bucket_log EXCEPT ![p.bucket] =
                        Append(IF p.created THEN <<>> ELSE @,
                               [resp |-> p.resp,
                                usage |-> IF read THEN bucket_usage(p.resp) ELSE p.resp[3],
                                read |-> read, rejected |-> rejected])]
    /\ bucket_first_use' = [bucket_first_use EXCEPT ![p.bucket] =
                              IF p.created THEN Some(now) ELSE @]

\* The pipeline fails, before the store ran it or after: the error leaves
\* respond_to and wrap_error answers it.  The pipeline is no transaction, and
\* a failure after the store ran the commands undoes none of them.
PipelineFails(r) ==
    /\ NoResponsePending
    /\ req[r].pc = "redis"
    /\ \E ran \in BOOLEAN :
          IF ran THEN PipelineRan(send_packed_commands(req[r]), FALSE, FALSE)
          ELSE StoreUnchanged
    /\ req' = [req EXCEPT ![r] = Finish(req[r], InternalError)]
    /\ UNCHANGED <<now, user_agent, received, client_tokens>>
    /\ ConfigUnchanged

\* The third reply is not an integer and the request goes on to the upstream.
PipelineReplyAllowed(r) ==
    /\ NoResponsePending
    /\ req[r].pc = "redis"
    /\ PipelineRan(send_packed_commands(req[r]), FALSE, FALSE)
    /\ req' = [req EXCEPT ![r] = [req[r] EXCEPT !.pc = "upstream", !.upstream_calls = @ + 1]]
    /\ UNCHANGED <<now, user_agent, received, client_tokens>>
    /\ ConfigUnchanged

\* The store ran the pipeline and the third reply that reaches the request is
\* not an integer: the request reads no usage from it.
PipelineReplyUnusable(r) ==
    /\ NoResponsePending
    /\ req[r].pc = "redis"
    /\ PipelineRan(send_packed_commands(req[r]), FALSE, FALSE)
    /\ req' = [req EXCEPT ![r] = return_saved(req[r], make_error(500, <<"Redis failure">>))]
    /\ UNCHANGED <<now, user_agent, received, client_tokens>>
    /\ ConfigUnchanged

\* The session server answers with a status line, or the call fails: the
\* first await of verify_login_attempt.  After a 200 the task awaits the body.
MojangReplies(r, outcome) ==
    /\ NoResponsePending
    /\ req[r].pc = "mojang"
    /\ req' = [req EXCEPT ![r] =
                 IF outcome = "error" THEN Finish(req[r], InternalError)
                 ELSE IF outcome # "200" THEN Finish(req[r], make_error(401, <<"Unauthorized">>))
                 ELSE [req[r] EXCEPT !.pc = "mojang_body"]]
    /\ UNCHANGED <<now, user_agent, received, client_tokens>>
    /\ StoreUnchanged /\ ConfigUnchanged

\* The body of the session server's reply arrives: the rest of
\* verify_login_attempt, with the clock read now.
MojangBody(r, profile) ==
    /\ NoResponsePending
    /\ req[r].pc = "mojang_body"
    /\ req' = [req EXCEPT ![r] =
                 LET user == MojangUser(profile)
                     right_now == MillisecondTimestampNow
                     it == JWTPrincipal(user.id, user.name,
                                        TimestampAdd(right_now, default_token_duration),
                                        right_now)
                 IN  authenticated(req[r], Save(it), it)]
    /\ UNCHANGED <<now, user_agent, received, client_tokens>>
    /\ StoreUnchanged /\ ConfigUnchanged

\* Reading the body fails, or the body is no profile: the error leaves
\* respond_to and wrap_error answers it.
MojangBodyFails(r) ==
    /\ NoResponsePending
    /\ req[r].pc = "mojang_body"
    /\ req' = [req EXCEPT ![r] = Finish(req[r], InternalError)]
    /\ UNCHANGED <<now, user_agent, received, client_tokens>>
    /\ StoreUnchanged /\ ConfigUnchanged

\* The store runs the limiter's pipeline and the request reads its replies.
LimiterPipeline(r) ==
    /\ NoResponsePending
    /\ req[r].pc = "redis"
    /\ LET rq == req[r]
           p == send_packed_commands(rq)
           bucket_usage_int == bucket_usage(p.resp)
           rejected == rate_limit_exceeded(bucket_usage_int)
       IN  /\ PipelineRan(p, TRUE, rejected)
           /\ req' = [req EXCEPT ![r] =
                        IF rejected
                        THEN return_saved(rq, make_error(429, <<"Rate limit exceeded">>))
                        ELSE [rq EXCEPT !.pc = "upstream", !.upstream_calls = @ + 1,
                                        !.upstream_request =
                                            Some([url |-> Unwrap(rq.url), method |-> "GET",
                                                  api_key |-> hypixel_token])]]
    /\ UNCHANGED <<now, user_agent, received, client_tokens>>
    /\ ConfigUnchanged

\* What the upstream call can end in: a reply of status 200 whose body
\* arrives whole, a reply of status 200 whose body fails after the head, a
\* reply of another status, and a failure of the call.
UpstreamOutcomes == {"200", "200 body error", "500", "error"}

\* The response of the upstream with the given status line.  Its body is a
\* stream: the chunks that arrive, and whether the stream ends with an error.
UpstreamResponse(outcome) ==
    [status |-> IF outcome \in {"200", "200 body error"} THEN 200 ELSE 500,
     body |-> IF outcome = "200 body error"
              THEN <<"upstream body">>
              ELSE <<"upstream body", outcome>>,
     body_error |-> outcome = "200 body error"]

\* Response::builder()...body(hypixel_response.into_body()): the body of the
\* response is the stream of the upstream's body, with whatever it ends in.
forward_body(hypixel_response) ==
    [Response(200, hypixel_response.body) EXCEPT
        !.body_error = hypixel_response.body_error]

\* The upstream answers and its response is forwarded whatever its status.
UpstreamRepliesForwarded(r, outcome) ==
    /\ NoResponsePending
    /\ req[r].pc = "upstream"
    /\ req' = [req EXCEPT ![r] =
                 IF outcome = "error" THEN Finish(req[r], InternalError)
                 ELSE LET hypixel_response == UpstreamResponse(outcome)
                          rq == [req[r] EXCEPT !.hypixel_response = Some(hypixel_response)]
                      IN  return_saved(rq, [forward_body(hypixel_response) EXCEPT
                                               !.status = hypixel_response.status])]
    /\ UNCHANGED <<now, user_agent, received, client_tokens>>
    /\ StoreUnchanged /\ ConfigUnchanged

\* The upstream answers, or the call fails.  A reply of status 200 is handed
\* over with the upstream's body as its body: the task of the request ends
\* with the head, and the body is streamed to the caller, whole or up to the
\* error it ends with; nothing of the process is read or written meanwhile.
UpstreamReplies(r, outcome) ==
    /\ NoResponsePending
    /\ req[r].pc = "upstream"
    /\ req' = [req EXCEPT ![r] =
                 IF outcome = "error" THEN Finish(req[r], InternalError)
                 ELSE LET hypixel_response == UpstreamResponse(outcome)
                          rq == [req[r] EXCEPT !.hypixel_response = Some(hypixel_response)]
                      IN  IF hypixel_response.status # 200
                          THEN return_saved(rq, make_error(502, <<"Failed to request hypixel upstream">>))
                          ELSE return_saved(rq, forward_body(hypixel_response))]
    /\ UNCHANGED <<now, user_agent, received, client_tokens>>
    /\ StoreUnchanged /\ ConfigUnchanged

\* respond_to_statistics: the store answers the GETs of the accumulated
\* counters, a missing counter counting as 0, and the totals, by rule, are
\* the body.
StatsReplies(r) ==
    /\ NoResponsePending
    /\ req[r].pc = "stats"
    /\ req' = [req EXCEPT ![r] =
                 return_saved(req[r], Response(200, <<"request_total", hypixel_accumulated>>))]
    /\ UNCHANGED <<now, user_agent, received, client_tokens>>
    /\ StoreUnchanged /\ ConfigUnchanged

\* The GETs of respond_to_statistics fail: wrap_error answers the error.
StatsFails(r) ==
    /\ NoResponsePending
    /\ req[r].pc = "stats"
    /\ req' = [req EXCEPT ![r] = Finish(req[r], InternalError)]
    /\ UNCHANGED <<now, user_agent, received, client_tokens>>
    /\ StoreUnchanged /\ ConfigUnchanged

\* The response leaves the process; the client keeps the token it carries.
Deliver(r) ==
    /\ req[r].pc = "done"
    /\ client_tokens' = client_tokens \cup
                          {Unwrap(Unwrap(req[r].response).x_ursa_token) :
                              x \in IF Unwrap(req[r].response).x_ursa_token = None THEN {} ELSE {1}}
    /\ req' = [req EXCEPT ![r] = IdleRequest]
    /\ UNCHANGED <<now, user_agent, received>>
    /\ StoreUnchanged /\ ConfigUnchanged

\* A second passes; the store removes the keys whose deadline is reached.
Tick ==
    /\ NoResponsePending
    /\ now < MaxNow
    /\ now' = now + 1
    /\ ratelimit' = expire_keys(ratelimit, now + 1)
    /\ bucket_log' = [k \in BucketKeys |->
                        IF expire_keys(ratelimit, now + 1)[k] = None THEN <<>> ELSE bucket_log[k]]
    /\ bucket_first_use' = [k \in BucketKeys |->
                        IF expire_keys(ratelimit, now + 1)[k] = None THEN None
                        ELSE bucket_first_use[k]]
    /\ UNCHANGED <<hypixel_request, hypixel_accumulated, user_agent, req, received, client_tokens>>
    /\ ConfigUnchanged

\* The steps of a request for a proxied path after its arrival, and of the
\* clock.
Resume ==
    \/ \E r \in Slots : UserAgentCounted(r)
    \/ \E r \in Slots : UserAgentFails(r)
    \/ \E r \in Slots, outcome \in {"200", "204", "error"} : MojangReplies(r, outcome)
    \/ \E r \in Slots, profile \in MojangProfiles : MojangBody(r, profile)
    \/ \E r \in Slots : MojangBodyFails(r)
    \/ \E r \in Slots : LimiterPipeline(r)
    \/ \E r \in Slots : PipelineFails(r)
    \/ \E r \in Slots : PipelineReplyUnusable(r)
    \/ \E r \in Slots, outcome \in UpstreamOutcomes : UpstreamReplies(r, outcome)
    \/ \E r \in Slots : Deliver(r)
    \/ Tick

\* The steps of a request for the statistics.
Statistics ==
    \/ \E r \in Slots : StatsReplies(r)
    \/ \E r \in Slots : StatsFails(r)

Next ==
    \/ \E r \in Slots : Receive(r)
    \/ Resume

Spec == Init /\ [][Next]_vars

\* ------------------------------------------- the translation of the paths
\* The characters of the request paths, and every path of at most MaxPathLen
\* of them.
PathChars == {"p", "s", "/", "x", "y"}

TranslatePaths == UNION {[1..n -> PathChars] : n \in 0..MaxPathLen}

\* One request arrives with the token of the GenerateToken command and any
\* path under /v1/hypixel/; no other request arrives.
ReceivePath(r) ==
    /\ received = 0
    /\ \E path \in TranslatePaths :
          Arrival(r, HypixelPrefix \o path,
                  Credentials(Some(sign_with_key(GeneratedPrincipal, key)), None, None), None)

TranslateNext ==
    \/ \E r \in Slots : ReceivePath(r)
    \/ \E r \in Slots : UserAgentCounted(r)
    \/ \E r \in Slots : UserAgentFails(r)
    \/ \E r \in Slots : PipelineFails(r)
    \/ \E r \in Slots : PipelineReplyUnusable(r)
    \/ \E r \in Slots : LimiterPipeline(r)
    \/ \E r \in Slots, outcome \in UpstreamOutcomes : UpstreamReplies(r, outcome)
    \/ \E r \in Slots : Deliver(r)

\* The run of one request with an arbitrary path.
TranslateSpec == Init /\ [][TranslateNext]_vars

\* ------------------------------------------- requests for several rules
\* Paths for two rules with different statistics keys, and paths that are not
\* translated: a missing segment, a superfluous segment, no rule.
RulePaths ==
    { <<"p", "/", "x">>,
      <<"s", "/", "x", "/", "y">>,
      <<"p">>,
      <<"p", "/", "x", "/", "y">>,
      <<"q">> }

\* A principal of the player without an end of validity.
LastingPrincipal == JWTPrincipal(PlayerUuid, PlayerName, U64_MAX, 0)

\* The credentials of two principals: the token of the GenerateToken command,
\* and a token of the player.
RuleCredentials ==
    { Credentials(Some(sign_with_key(GeneratedPrincipal, key)), None, None),
      Credentials(Some(sign_with_key(LastingPrincipal, key)), None, None) }

\* A request of one of the two principals arrives for one of the paths.
ReceiveRule(r) ==
    /\ received < MaxRequests
    /\ \E credentials \in RuleCredentials, path \in RulePaths :
          Arrival(r, HypixelPrefix \o path, credentials, None)

RuleNext ==
    \/ \E r \in Slots : ReceiveRule(r)
    \/ \E r \in Slots : UserAgentCounted(r)
    \/ \E r \in Slots : UserAgentFails(r)
    \/ \E r \in Slots : PipelineFails(r)
    \/ \E r \in Slots : PipelineReplyUnusable(r)
    \/ \E r \in Slots : LimiterPipeline(r)
    \/ \E r \in Slots, outcome \in UpstreamOutcomes : UpstreamReplies(r, outcome)
    \/ \E r \in Slots : Deliver(r)
    \/ Tick

\* The runs of the requests of two principals for several rules.
RuleSpec == Init /\ [][RuleNext]_vars

\* ------------------------------------------------- the run of one request
\* The process starts with any of the API keys.
KeyInit ==
    /\ allow_anonymous \in BOOLEAN
    /\ hypixel_token \in ApiKeys
    /\ now = 0
    /\ ratelimit = [k \in BucketKeys |-> None]
    /\ hypixel_request = [i \in RuleIds |-> <<>>]
    /\ hypixel_accumulated = [i \in RuleIds |-> 0]
    /\ user_agent = <<>>
    /\ req = [r \in Slots |-> IdleRequest]
    /\ received = 0
    /\ client_tokens = {}
    /\ bucket_log = [k \in BucketKeys |-> <<>>]
    /\ bucket_first_use = [k \in BucketKeys |-> None]

\* The first request arrives.
ReceiveOne(r) ==
    /\ received = 0
    /\ ReceiveFrom(r, Uris, UserAgents, PresentedCredentials(PresentedTokens))

KeyNext ==
    \/ \E r \in Slots : ReceiveOne(r)
    \/ Resume
    \/ Statistics

\* The run of one request of a process started with any API key.
KeySpec == KeyInit /\ [][KeyNext]_vars

\* ------------------------------------------------------------- fairness
\* The store answers the ZINCRBY of the user agent of request r, or it fails.
UserAgentReturns(r) == UserAgentFails(r) \/ UserAgentCounted(r)

\* The store answers the pipeline of request r, or the pipeline fails.
StoreReturns(r) == PipelineFails(r) \/ PipelineReplyUnusable(r) \/ LimiterPipeline(r)

\* The session server answers request r, or the call fails.
MojangReturns(r) == \E outcome \in {"200", "204", "error"} : MojangReplies(r, outcome)

\* The body of the session server's reply arrives, or reading it fails.
MojangBodyReturns(r) ==
    \/ MojangBodyFails(r)
    \/ \E profile \in MojangProfiles : MojangBody(r, profile)

\* The upstream answers request r, or the call fails.
UpstreamReturns(r) == \E outcome \in UpstreamOutcomes : UpstreamReplies(r, outcome)

\* The store answers the GETs of the statistics of request r, or they fail.
StatsReturns(r) == StatsFails(r) \/ StatsReplies(r)

\* The call request r awaits returns or fails.  A request awaits one call at
\* a time.
CallReturns(r) ==
    \/ UserAgentReturns(r)
    \/ StoreReturns(r)
    \/ MojangReturns(r)
    \/ MojangBodyReturns(r)
    \/ UpstreamReturns(r)
    \/ StatsReturns(r)

\* Every call a request awaits returns or fails, and the runtime sends every
\* response a task hands over.
CallsReturn ==
    \A r \in Slots :
        /\ WF_vars(CallReturns(r))
        /\ WF_vars(Deliver(r))

\* One of the first two requests arrives.
ReceiveTwo(r) ==
    /\ received <= 1
    /\ ReceiveFrom(r, SessionUris, {None},
                   SessionCredentials
                   \cup { Credentials(Some(t), None, None) : t \in client_tokens })

LiveNext ==
    \/ \E r \in Slots : ReceiveTwo(r)
    \/ Resume
    \/ Statistics

\* The run of two requests, every call they await returning or failing.
LiveSpec == Init /\ [][LiveNext]_vars /\ CallsReturn

\* ------------------------------------------------------------ the claims
Answered(r, status) ==
    req[r].pc = "done" /\ Unwrap(req[r].response).status = status

\* The bucket of the principal of request r.
BucketOf(r) == ratelimit_key(Unwrap(req[r].principal))

\* The last entry of the log of bucket k: the latest pipeline the store ran.
LastRead(k) == bucket_log[k][Len(bucket_log[k])]

\* The store runs the pipeline of request r in this step, whether or not the
\* replies reach the request.
PipelineRuns(r) ==
    /\ req[r].pc = "redis"
    /\ req'[r].pc # "redis"
    /\ bucket_log' # bucket_log

\* The entry the pipeline that runs in this step adds to the log of bucket k.
Added(k) == bucket_log'[k][Len(bucket_log'[k])]

HasExpiry(k) == ratelimit[k] # None /\ Unwrap(ratelimit[k]).expire_at # None

ExpireAt(k) == Unwrap(Unwrap(ratelimit[k]).expire_at)

C2_FirstUseSetsExpiry ==
    \A k \in BucketKeys :
        ratelimit[k] # None =>
            /\ HasExpiry(k)
            /\ ExpireAt(k) <= now + rate_limit_lifespan

\* C3: once a bucket has an expiry, no step changes it before it elapses, and
\* the bucket is gone when it has elapsed.
C3_ExpiryNeverPostponed ==
    [][\A k \in BucketKeys :
          HasExpiry(k) =>
              IF ExpireAt(k) > now'
              THEN ratelimit'[k] # None
                   /\ Unwrap(ratelimit'[k]).expire_at = Unwrap(ratelimit[k]).expire_at
              ELSE ratelimit'[k] = None]_vars

\* C3 witness: a request ran its pipeline on a bucket that had an expiry (its
\* EXPIRE set nothing), and the bucket still has the expiry, set in an earlier
\* second.
C3_Witness ==
    \E k \in BucketKeys :
        /\ Len(bucket_log[k]) >= 3
        /\ LastRead(k).resp[2] = 0
        /\ HasExpiry(k)
        /\ ExpireAt(k) < now + rate_limit_lifespan

\* C4 (as claimed): the request whose increment happens first on a fresh bucket
\* (it reads back 1) is the one whose EXPIRE sets the expiry, and the EXPIRE of
\* a request that reads back more does not set it.
C4_ExpirySetByFirstIncrement ==
    \A k \in BucketKeys : \A i \in 1..Len(bucket_log[k]) :
        /\ bucket_log[k][i].resp[3] = 1 => bucket_log[k][i].resp[2] = 1
        /\ bucket_log[k][i].resp[3] > 1 => bucket_log[k][i].resp[2] = 0

C6_AdmittedAfterWindow ==
    [][\A r \in Slots :
          (/\ PipelineRuns(r)
           /\ Added(BucketOf(r)).read
           /\ bucket_first_use[BucketOf(r)] # None
           /\ now >= Unwrap(bucket_first_use[BucketOf(r)]) + rate_limit_lifespan)
          => Added(BucketOf(r)).usage = 1]_vars

\* The token of a request verifies with the process secret.
TagVerifies(token) == token.tag = Hmac(token.claims, key)

\* The validity window of the token holds at the millisecond timestamp.
InWindow(token, timestamp) ==
    token.claims.valid_since <= timestamp /\ timestamp <= token.claims.valid_until

\* C7 (as claimed): with anonymous mode disabled, a request that presents a
\* token and the identity headers is never answered 401 without a call of the
\* identity service: an invalid token falls through to identity verification.
C7_InvalidTokenFallsThrough ==
    ~allow_anonymous =>
        \A r \in Slots :
            (req[r].token # None /\ req[r].username # None /\ req[r].serverid # None
                /\ Answered(r, 401))
            => req[r].mojang_calls >= 1

\* The request is for a path that requires a login: a proxied path, or a
\* meta path other than the version.
RequiresLogin(rq) ==
    \/ strip_prefix(rq.uri, HypixelPrefix) # None
    \/ /\ strip_prefix(rq.uri, MetaPrefix) # None
       /\ strip_prefix(rq.uri, MetaPrefix) # Some(<<"version">>)

\* The task of request r is resumed after the store counted its user agent
\* and runs require_login in this step: the credentials are read, and the
\* clock, now.
Authenticates(r) ==
    /\ req[r].pc = "agent"
    /\ req'[r].pc # "agent"
    /\ req'[r].response # Some(InternalError)
    /\ RequiresLogin(req[r])

\* C8: with anonymous mode disabled, the token a request presents is accepted
\* (the request continues with the token's claims as its principal and the
\* refresh-expiry directive) if and only if its tag verifies with the process
\* secret and valid_since <= now <= valid_until; so the token of valid_since 0
\* and valid_until MAX is accepted at every now.
C8_AcceptedIffTagAndWindow ==
    [][~allow_anonymous =>
         \A r \in Slots :
            (Authenticates(r) /\ req'[r].token # None) =>
                LET token == Unwrap(req'[r].token)
                IN  (req'[r].save.kind = "SaveExpires" /\ req'[r].principal = Some(token.claims))
                    <=> (TagVerifies(token) /\ InWindow(token, now * MillisPerSecond))]_vars

\* C8 witness: a token is accepted in the last millisecond of its window.
C8_Witness ==
    /\ ~allow_anonymous
    /\ \E r \in Slots :
          /\ req[r].token = Some(sign_with_key(WindowedPrincipal, key))
          /\ req[r].save.kind = "SaveExpires"
          /\ req[r].principal = Some(WindowedPrincipal)
          /\ now * MillisPerSecond = WindowedPrincipal.valid_until

\* C9: with anonymous mode disabled, a request that presents a token the proxy
\* issued in x-ursa-token, and whose token is read at a time within the
\* token's window, is authenticated with the token's principal and no call of
\* the identity service is made for it.
C9_IssuedTokenAuthenticates ==
    [][~allow_anonymous =>
         \A r \in Slots :
            (/\ Authenticates(r)
             /\ req'[r].token # None
             /\ Unwrap(req'[r].token) \in client_tokens
             /\ InWindow(Unwrap(req'[r].token), now * MillisPerSecond))
            => /\ req'[r].principal = Some(Unwrap(req'[r].token).claims)
               /\ req'[r].mojang_calls = 0
               /\ req'[r].pc # "mojang"]_vars

\* C9 witness: a request presented an issued token and continues to the
\* limiter with the token's principal, without a call of the identity service.
C9_Witness ==
    \E r \in Slots :
        /\ req[r].token # None
        /\ Unwrap(req[r].token) \in client_tokens
        /\ req[r].principal = Some(Unwrap(req[r].token).claims)
        /\ req[r].save.kind = "SaveExpires"
        /\ req[r].mojang_calls = 0
        /\ req[r].pc = "redis"

\* C10: with anonymous mode enabled, every request whose user agent the store
\* counted is served under the synthetic principal, no request calls the
\* identity service, none is answered 429 and no response carries
\* x-ursa-token or x-ursa-expires.
C10_AnonymousBypass ==
    allow_anonymous =>
        \A r \in Slots : req[r].pc \notin {"idle", "agent"} =>
            /\ req[r].mojang_calls = 0
            /\ req[r].pc \notin {"mojang", "mojang_body"}
            /\ req[r].principal # Some(AnonymousPrincipal)
                  => (req[r].pc = "done" /\ req[r].response = Some(InternalError))
            /\ req[r].pc = "done" =>
                  /\ Unwrap(req[r].response).status # 429
                  /\ Unwrap(req[r].response).x_ursa_token = None
                  /\ Unwrap(req[r].response).x_ursa_expires = None

\* C10 witness: in anonymous mode a request that presented a token and read
\* back a usage above the threshold is answered with the upstream's response.
C10_Witness ==
    /\ allow_anonymous
    /\ \E r \in Slots :
          /\ req[r].token # None
          /\ Answered(r, 200)
          /\ req[r].upstream_calls = 1
          /\ Len(bucket_log[BucketOf(r)]) > rate_limit_bucket
          /\ \A i \in 1..Len(bucket_log[BucketOf(r)]) : ~bucket_log[BucketOf(r)][i].rejected

\* C11 (as claimed): with anonymous mode enabled no step of a request changes
\* a rate bucket: the limiter's store unit is not executed, so the usage and
\* the expiry of every bucket stay as they are.
C11_AnonymousLeavesBuckets ==
    [][(allow_anonymous /\ now' = now) =>
          /\ ratelimit' = ratelimit
          /\ bucket_log' = bucket_log]_vars

\* C11 (amended): with anonymous mode enabled the limiter's rejection is
\* bypassed, not its store unit: the pipeline of an anonymous request
\* increments the usage of the anonymous principal's bucket by one, leaves
\* the other buckets alone, and the request, when it reads a usage back, goes
\* on to the upstream call whatever the usage is.
C11_AnonymousCountedNeverRejected ==
    [][allow_anonymous =>
         \A r \in Slots :
            PipelineRuns(r) =>
                /\ req[r].principal = Some(AnonymousPrincipal)
                /\ Added(BucketOf(r)).read => req'[r].pc = "upstream"
                /\ ~Added(BucketOf(r)).rejected
                /\ ratelimit'[BucketOf(r)] # None
                /\ Unwrap(ratelimit'[BucketOf(r)]).value =
                      (IF ratelimit[BucketOf(r)] = None THEN 0
                       ELSE Unwrap(ratelimit[BucketOf(r)]).value) + 1
                /\ \A k \in BucketKeys \ {BucketOf(r)} : ratelimit'[k] = ratelimit[k]]_vars

\* C11 witness: in anonymous mode a request waits for the upstream after its
\* pipeline took the anonymous principal's bucket above the threshold.
C11_Witness ==
    /\ allow_anonymous
    /\ \E r \in Slots :
          /\ req[r].pc = "upstream"
          /\ ratelimit[BucketOf(r)] # None
          /\ Unwrap(ratelimit[BucketOf(r)]).value > rate_limit_bucket

\* The response with the headers of the save directive taken off.
WithoutAuthHeaders(response) ==
    [response EXCEPT !.x_ursa_token = None, !.x_ursa_expires = None]

\* C12 (as claimed): the final response of every request that authenticated
\* carries the headers of its save directive, whichever stage produced the
\* response.
C12_DirectiveOnEveryFinalResponse ==
    \A r \in Slots :
        (req[r].pc = "done" /\ req[r].principal # None) =>
            Unwrap(req[r].response) =
                save_to(req[r].save, WithoutAuthHeaders(Unwrap(req[r].response)))

\* C13: the auth branch determines the directive, and the directive, where it
\* is applied, determines the auth headers.  A request authenticated by a
\* valid presented token has the refresh-expiry directive and gets
\* x-ursa-expires, the valid_until of the presented token, and no
\* x-ursa-token; a request authenticated by the identity service has the
\* issue-new-token directive and gets x-ursa-token, the new principal signed
\* with the process secret, and x-ursa-expires; the don't-save directive
\* attaches neither; a response the directive was not applied to has neither.
C13_BranchDeterminesHeaders ==
    \A r \in Slots :
        LET rq == req[r]
        IN  /\ rq.principal # None =>
                /\ rq.save.kind = "DontSave" <=> allow_anonymous
                /\ rq.save.kind = "Save" <=> rq.mojang_calls = 1
                /\ rq.save.kind = "SaveExpires" <=>
                      (~allow_anonymous /\ rq.token # None /\ rq.mojang_calls = 0)
                /\ rq.save.kind = "SaveExpires" =>
                      /\ rq.principal = Some(Unwrap(rq.token).claims)
                      /\ rq.save.timestamp = Some(Unwrap(rq.token).claims.valid_until)
                /\ rq.save.kind = "Save" => rq.save.principal = rq.principal
            /\ rq.pc = "done" =>
                LET response == Unwrap(rq.response)
                IN  /\ rq.saved <= 1
                    /\ (rq.saved = 0 \/ rq.save.kind = "DontSave") =>
                          /\ response.x_ursa_token = None
                          /\ response.x_ursa_expires = None
                    /\ (rq.saved = 1 /\ rq.save.kind = "SaveExpires") =>
                          /\ response.x_ursa_token = None
                          /\ response.x_ursa_expires =
                                Some(to_string(Unwrap(rq.token).claims.valid_until))
                    /\ (rq.saved = 1 /\ rq.save.kind = "Save") =>
                          /\ response.x_ursa_token =
                                Some(sign_with_key(Unwrap(rq.principal), key))
                          /\ response.x_ursa_expires =
                                Some(to_string(Unwrap(rq.principal).valid_until))

\* C13 witness: a request that presented a token the proxy issued to an
\* earlier, freshly verified request is answered with x-ursa-expires alone.
C13_Witness ==
    \E r \in Slots :
        /\ Answered(r, 200)
        /\ req[r].token # None
        /\ Unwrap(req[r].token) \in client_tokens
        /\ req[r].saved = 1
        /\ Unwrap(req[r].response).x_ursa_token = None
        /\ Unwrap(req[r].response).x_ursa_expires # None

\* The request in slot r is for a proxied path and past authentication: its
\* path was given to hypixel::respond_to.
Translated(r) ==
    /\ req[r].pc # "idle"
    /\ req[r].principal # None
    /\ strip_prefix(req[r].uri, HypixelPrefix) # None

\* The rest of the path of request r after the public path of rule i.
Remainder(r, i) == strip_prefix(req[r].path, rules[i].http_path)

\* The path of request r supplies exactly as many segments after the public
\* path of rule i as the rule has argument names.
SuppliesExactly(r, i) ==
    /\ Remainder(r, i) # None
    /\ Len(path_parts(Unwrap(Remainder(r, i)))) = Len(rules[i].query_arguments)

\* Rule i is the first rule, in load order, whose public path is a prefix of
\* the path of request r.
FirstMatch(r, i) ==
    /\ Remainder(r, i) # None
    /\ \A j \in 1..(i - 1) : Remainder(r, j) = None

\* The path of request r was translated by rule i: the upstream URL is the
\* rule's template with the k-th segment as the value of the k-th argument
\* name, in order.
TranslatedBy(r, i) ==
    /\ req[r].rule = i
    /\ req[r].url # None
    /\ Unwrap(req[r].url).base = rules[i].hypixel_path
    /\ Len(Unwrap(req[r].url).query) = Len(rules[i].query_arguments)
    /\ \A k \in 1..Len(rules[i].query_arguments) :
          Unwrap(req[r].url).query[k] =
              <<rules[i].query_arguments[k], path_parts(Unwrap(Remainder(r, i)))[k]>>
    /\ ~(req[r].pc = "done" /\ Unwrap(req[r].response).status \in {400, 404})

\* C14 (as claimed): for every rule R and every request path that supplies
\* exactly len(R.query_arguments) non-empty segments after R's public path,
\* translation succeeds with R's template and the segments in order.
C14_EveryRuleTranslates ==
    \A r \in Slots : \A i \in RuleIds :
        (Translated(r) /\ SuppliesExactly(r, i)) => TranslatedBy(r, i)

\* C14 (amended): for every request path and the first rule R, in load order,
\* whose public path is a prefix of it: if the path supplies exactly
\* len(R.query_arguments) non-empty segments after R's public path,
\* translation succeeds with R's template and the segments in order.
C14_FirstMatchTranslates ==
    \A r \in Slots : \A i \in RuleIds :
        (Translated(r) /\ FirstMatch(r, i) /\ SuppliesExactly(r, i)) => TranslatedBy(r, i)

\* C14 witness: the path s/x/y was translated by the rule of two arguments.
C14_Witness ==
    \E r \in Slots :
        /\ req[r].path = <<"s", "/", "x", "/", "y">>
        /\ req[r].pc = "redis"
        /\ req[r].url = Some([base |-> "https://api.hypixel.net/s",
                              query |-> << <<"a", <<"x">>>>, <<"b", <<"y">>>> >>])

\* C15 (as claimed): when the path supplies fewer segments than the matched
\* rule has argument names, the request is answered 400 naming the first
\* argument name without a segment; when it supplies more, 400 naming the
\* first extra segment; in both cases no store operation was made, so every
\* key of the store is as it was at the start, and no upstream call was made.
C15_NoStoreOperation ==
    \A r \in Slots : \A i \in RuleIds :
        (Translated(r) /\ FirstMatch(r, i)) =>
            LET parts == path_parts(Unwrap(Remainder(r, i)))
                n == Len(rules[i].query_arguments)
                rejected ==
                    /\ req[r].pc = "done"
                    /\ Unwrap(req[r].response).status = 400
                    /\ req[r].upstream_calls = 0
                    /\ \A k \in BucketKeys : ratelimit[k] = None
                    /\ \A j \in RuleIds : hypixel_request[j] = <<>> /\ hypixel_accumulated[j] = 0
                    /\ user_agent = <<>>
            IN  /\ Len(parts) < n =>
                    /\ rejected
                    /\ Unwrap(req[r].response).body =
                          <<"Missing query argument", rules[i].query_arguments[Len(parts) + 1]>>
                /\ Len(parts) > n =>
                    /\ rejected
                    /\ Unwrap(req[r].response).body =
                          <<"Superfluous query argument", parts[n + 1]>>

\* C15 (amended): when the path supplies fewer segments than the matched rule
\* has argument names, the request is answered 400 naming the first argument
\* name without a segment; when it supplies more, 400 naming the first extra
\* segment; in both cases the limiter's pipeline has not run on the store and
\* no upstream call was made: the one store operation of the request is the
\* count of its user agent, made once before the path is looked at.
C15_WrongSegmentCount ==
    \A r \in Slots : \A i \in RuleIds :
        (Translated(r) /\ FirstMatch(r, i)) =>
            LET parts == path_parts(Unwrap(Remainder(r, i)))
                n == Len(rules[i].query_arguments)
                rejected ==
                    /\ req[r].pc = "done"
                    /\ Unwrap(req[r].response).status = 400
                    /\ req[r].upstream_calls = 0
                    /\ \A k \in BucketKeys : ratelimit[k] = None
                    /\ \A j \in RuleIds : hypixel_request[j] = <<>> /\ hypixel_accumulated[j] = 0
                    /\ DOMAIN user_agent = {user_agent_member(req[r])}
                    /\ user_agent[user_agent_member(req[r])] = 1
            IN  /\ Len(parts) < n =>
                    /\ rejected
                    /\ Unwrap(req[r].response).body =
                          <<"Missing query argument", rules[i].query_arguments[Len(parts) + 1]>>
                /\ Len(parts) > n =>
                    /\ rejected
                    /\ Unwrap(req[r].response).body =
                          <<"Superfluous query argument", parts[n + 1]>>

\* C15 witness: the path s/x, one segment for the rule of two arguments, is
\* answered 400 naming the second argument, the store holding the count of
\* the request's user agent and nothing else.
C15_Witness ==
    \E r \in Slots :
        /\ req[r].path = <<"s", "/", "x">>
        /\ Answered(r, 400)
        /\ Unwrap(req[r].response).body = <<"Missing query argument", "b">>
        /\ DOMAIN user_agent = {"none"} /\ user_agent["none"] = 1
        /\ \A k \in BucketKeys : ratelimit[k] = None

\* C16: an upstream call is made for a request only in the step in which the
\* limiter admitted it, which it reaches with a principal from authentication
\* and a URL from the translation of its path; a request answered from an
\* earlier stage, and every request answered 400, 401 or 429, has made no
\* upstream call.
C16_UpstreamOnlyAfterAdmission ==
    [][\A r \in Slots :
          /\ req'[r].upstream_calls > req[r].upstream_calls =>
                /\ req[r].pc = "redis"
                /\ req[r].principal # None
                /\ req[r].rule \in RuleIds
                /\ req[r].url # None
                /\ PipelineRuns(r)
                /\ Added(BucketOf(r)).read
                /\ ~Added(BucketOf(r)).rejected
                /\ req'[r].pc = "upstream"
          /\ (/\ req[r].pc \in {"agent", "mojang", "mojang_body", "redis", "stats"}
              /\ req'[r].pc = "done") =>
                req'[r].upstream_calls = 0
          /\ (req'[r].pc = "done" /\ Unwrap(req'[r].response).status \in {400, 401, 429}) =>
                req'[r].upstream_calls = 0]_vars

\* C16 witness: of two requests of one principal the admitted one waits for
\* the upstream and the one answered 429 made no upstream call.
C16_Witness ==
    \E r1 \in Slots, r2 \in Slots :
        /\ req[r1].pc = "upstream" /\ req[r1].upstream_calls = 1
        /\ Answered(r2, 429) /\ req[r2].upstream_calls = 0
        /\ req[r1].principal = req[r2].principal

\* C17: a request whose pipeline fails, before or after the store ran it, or
\* returns a reply that is no usage count, is answered 500 and makes no
\* upstream call.
C17_StoreFailureIsNotAllow ==
    [][\A r \in Slots :
          (/\ req[r].pc = "redis" /\ req'[r].pc # "redis"
           /\ ~(PipelineRuns(r) /\ Added(BucketOf(r)).read)) =>
              /\ req'[r].pc = "done"
              /\ Unwrap(req'[r].response).status = 500
              /\ req'[r].upstream_calls = 0
              /\ req'[r].hypixel_response = None]_vars

\* C17 witness: a request whose pipeline returned an unusable reply, the
\* store having counted it, is answered 500 without an upstream call.
C17_Witness ==
    \E r \in Slots :
        /\ Answered(r, 500)
        /\ Unwrap(req[r].response).body = <<"Redis failure">>
        /\ req[r].upstream_calls = 0
        /\ bucket_log[BucketOf(r)] # <<>>
        /\ ~LastRead(BucketOf(r)).read

\* C18 (as claimed): with anonymous mode disabled, a request that arrives
\* without a valid token (none, or one whose tag or window fails) and without
\* the x-ursa-username or the x-ursa-serverid header is answered 400, and no
\* call of the identity service is made for it.
C18_MissingHeadersBadRequest ==
    [][~allow_anonymous =>
         \A r \in Slots :
            (/\ Authenticates(r)
             /\ \/ req'[r].token = None
                \/ ~(TagVerifies(Unwrap(req'[r].token))
                     /\ InWindow(Unwrap(req'[r].token), now * MillisPerSecond))
             /\ (req'[r].username = None \/ req'[r].serverid = None))
            => /\ req'[r].pc = "done"
               /\ Unwrap(req'[r].response).status = 400
               /\ req'[r].mojang_calls = 0]_vars

\* C19 (as claimed): when the call of the identity service ends without a
\* confirmation, by a non-200 response or by a failure of the call, the
\* request is answered 401, the call was made once, and no principal and no
\* token is produced.
C19_UnconfirmedIsUnauthorized ==
    [][\A r \in Slots :
          (/\ req[r].pc \in {"mojang", "mojang_body"}
           /\ req'[r].pc \notin {"mojang", "mojang_body"}
           /\ req'[r].principal = None) =>
              /\ req'[r].pc = "done"
              /\ Unwrap(req'[r].response).status = 401
              /\ req'[r].mojang_calls = 1
              /\ Unwrap(req'[r].response).x_ursa_token = None]_vars

\* C20: at most one upstream call is made per request; when the upstream
\* answers with a status other than 200 the caller receives 502 with the
\* proxy's error text, not the upstream's body, and when it answers 200 the
\* caller receives its body.
C20_UpstreamFailureIs502 ==
    \A r \in Slots :
        /\ req[r].upstream_calls <= 1
        /\ req[r].hypixel_response # None =>
              LET hypixel_response == Unwrap(req[r].hypixel_response)
                  response == Unwrap(req[r].response)
              IN  /\ req[r].pc = "done"
                  /\ req[r].upstream_calls = 1
                  /\ hypixel_response.status # 200 =>
                        /\ response.status = 502
                        /\ response.body = <<"Failed to request hypixel upstream">>
                        /\ response.body # hypixel_response.body
                  /\ hypixel_response.status = 200 =>
                        /\ response.status = 200
                        /\ response.body = hypixel_response.body

\* C20 witness: the upstream answered 500 and the caller received 502.
C20_Witness ==
    \E r \in Slots :
        /\ Answered(r, 502)
        /\ req[r].hypixel_response # None
        /\ Unwrap(req[r].hypixel_response).status = 500
        /\ req[r].upstream_calls = 1

\* C21 (as claimed): every response of status 500 is the generic message with
\* the correlation identifier of wrap_error, and nothing else.
C21_InternalFailureIsGeneric ==
    \A r \in Slots :
        Answered(r, 500) => WithoutAuthHeaders(Unwrap(req[r].response)) = InternalError

\* The response carries the API key k nowhere: not in its headers and not in
\* its body, if it has one.  After its text a body has the principal, the totals of the
\* statistics, the parts of the version, the path or the segment of an error
\* (a sequence of characters), or a string.
KeyFree(response, k) ==
    /\ response.x_ursa_token # None =>
          LET token == Unwrap(response.x_ursa_token)
          IN  /\ token.claims.id # k /\ token.claims.name # k
              /\ token.tag.key # k
    /\ response.x_ursa_expires # None =>
          \A i \in 1..Len(Unwrap(response.x_ursa_expires)) :
              Unwrap(response.x_ursa_expires)[i] # k
    /\ response.location # None => Unwrap(response.location) # k
    /\ IF response.body = <<>>
       THEN TRUE
       ELSE IF response.body[1] = k
       THEN FALSE
       ELSE IF response.body[1] = "principal"
       THEN response.body[2].id # k /\ response.body[2].name # k
       ELSE IF response.body[1] = "request_total"
       THEN \A i \in DOMAIN response.body[2] : response.body[2][i] \in Nat
       ELSE IF response.body[1] = "ursa-minor"
       THEN \A i \in 2..Len(response.body) : response.body[i] # k
       ELSE IF response.body[1] \in {"Unknown request path", "Unknown meta request",
                                     "Superfluous query argument"}
       THEN \A i \in 1..Len(response.body[2]) : response.body[2][i] # k
       ELSE /\ Len(response.body) <= 2
            /\ Len(response.body) = 2 => response.body[2] # k

\* C22: the API key is the API-Key header of every upstream request; no
\* response for a caller carries it in a header or in the body, whichever key
\* the process was started with; and the debug rendering of the configuration
\* is the same for every key, the placeholder standing in its place.
C22_ApiKeyStaysInside ==
    /\ \A k \in ApiKeys : debug_config(k) = debug_config(hypixel_token)
    /\ debug_config(hypixel_token).hypixel_token \notin ApiKeys
    /\ \A r \in Slots :
          /\ req[r].upstream_calls >= 1 =>
                /\ req[r].upstream_request # None
                /\ Unwrap(req[r].upstream_request).api_key = hypixel_token
          /\ req[r].response # None =>
                \A k \in ApiKeys : KeyFree(Unwrap(req[r].response), k)

\* C22 witness: a process started with the second key sent it to the upstream
\* and answered the caller 502.
C22_Witness ==
    /\ hypixel_token = "hypixel-key-B"
    /\ \E r \in Slots :
          /\ Answered(r, 502)
          /\ req[r].upstream_request # None
          /\ Unwrap(req[r].upstream_request).api_key = "hypixel-key-B"

\* The response is the forwarded response of the upstream in full.
ForwardedInFull(rq) ==
    /\ rq.hypixel_response # None
    /\ Unwrap(rq.hypixel_response).status = 200
    /\ ~Unwrap(rq.hypixel_response).body_error
    /\ Unwrap(rq.response).status = 200
    /\ Unwrap(rq.response).body = Unwrap(rq.hypixel_response).body
    /\ ~Unwrap(rq.response).body_error

\* The response is the forwarded response of an upstream whose body failed
\* after its head: the status 200 and the body cut short at the error.
ForwardedCut(rq) ==
    /\ rq.hypixel_response # None
    /\ Unwrap(rq.hypixel_response).status = 200
    /\ Unwrap(rq.hypixel_response).body_error
    /\ Unwrap(rq.response).status = 200
    /\ Unwrap(rq.response).body = Unwrap(rq.hypixel_response).body
    /\ Unwrap(rq.response).body_error

\* The response is a terminal error: an error status and the proxy's text,
\* whole, nothing of the upstream's response.
TerminalError(rq) ==
    /\ Unwrap(rq.response).status \in {400, 401, 404, 429, 500, 502}
    /\ ~Unwrap(rq.response).body_error
    /\ rq.hypixel_response # None =>
          Unwrap(rq.response).body # Unwrap(rq.hypixel_response).body

\* C23 (as claimed): with every awaited call returning or failing, the task
\* of a request in flight eventually ends, and it ends only by its response
\* being sent; it hands over one response, which is not replaced before it is
\* sent; and the response to a request for a proxied path is either the
\* upstream's response forwarded in full or a terminal error, never a partial
\* one.
C23_OneResponseEventually ==
    /\ \A r \in Slots : (req[r].pc # "idle") ~> (req[r].pc = "idle")
    /\ [][\A r \in Slots :
             /\ (req[r].pc # "idle" /\ req'[r].pc = "idle") => req[r].pc = "done"
             /\ req[r].pc = "done" => (req'[r] = req[r] \/ req'[r] = IdleRequest)
             /\ (req'[r].pc = "done" /\ strip_prefix(req'[r].uri, HypixelPrefix) # None) =>
                   (ForwardedInFull(req'[r]) \/ TerminalError(req'[r]))
             /\ req'[r].pc \in {"idle", "agent", "mojang", "mojang_body", "redis",
                                "upstream", "stats", "done"}
             /\ req'[r].pc # "done" => req'[r].response = None]_vars

\* C23 (amended): with every awaited call returning or failing, the task of a
\* request in flight eventually ends, and it ends only by its response being
\* sent; it hands over one response, which is not replaced before it is sent;
\* and the response to a request for a proxied path is a terminal error, whole,
\* or the upstream's response forwarded after a fully successful pipeline,
\* which is whole unless the upstream's body fails after its head: then, and
\* only then, the caller receives the status 200 with the body cut short.
C23_OneResponseWholeOrCutUpstream ==
    /\ \A r \in Slots : (req[r].pc # "idle") ~> (req[r].pc = "idle")
    /\ [][\A r \in Slots :
             /\ (req[r].pc # "idle" /\ req'[r].pc = "idle") => req[r].pc = "done"
             /\ req[r].pc = "done" => (req'[r] = req[r] \/ req'[r] = IdleRequest)
             /\ (req'[r].pc = "done" /\ strip_prefix(req'[r].uri, HypixelPrefix) # None) =>
                   \/ ForwardedInFull(req'[r])
                   \/ ForwardedCut(req'[r])
                   \/ TerminalError(req'[r])
             /\ (req'[r].pc = "done" /\ Unwrap(req'[r].response).body_error) =>
                   /\ req[r].pc = "upstream"
                   /\ req'[r].upstream_calls = 1
                   /\ ForwardedCut(req'[r])
             /\ req'[r].pc \in {"idle", "agent", "mojang", "mojang_body", "redis",
                                "upstream", "stats", "done"}
             /\ req'[r].pc # "done" => req'[r].response = None]_vars

\* C23 witness: a request that went through every stage, a fresh identity
\* verification included, is answered with the upstream's status 200 and a
\* body cut short by the failure of the upstream's body.
C23_Witness ==
    \E r \in Slots :
        /\ req[r].pc = "done"
        /\ req[r].mojang_calls = 1
        /\ req[r].upstream_calls = 1
        /\ ForwardedCut(req[r])

\* C24: the principal minted by a successful identity verification, now being
\* the time at which the body of the identity service's reply is read, has
\* valid_since = now and valid_until = now + the token lifetime, and the token
\* issued for it is accepted exactly when it is read at a time in
\* [valid_since, valid_since + lifetime].
C24_MintedWindow ==
    [][\A r \in Slots :
          /\ (req[r].pc = "mojang_body" /\ req'[r].principal # None) =>
                /\ Unwrap(req'[r].principal).valid_since = now * MillisPerSecond
                /\ Unwrap(req'[r].principal).valid_until =
                      (now + default_token_duration) * MillisPerSecond
                /\ req'[r].save = Save(Unwrap(req'[r].principal))
          /\ (/\ ~allow_anonymous /\ Authenticates(r)
              /\ req'[r].token # None
              /\ Unwrap(req'[r].token) \in client_tokens) =>
                LET claims == Unwrap(req'[r].token).claims
                IN  (req'[r].principal = Some(claims))
                    <=> (/\ claims.valid_since <= now * MillisPerSecond
                         /\ now * MillisPerSecond <=
                              claims.valid_since + default_token_duration * MillisPerSecond)]_vars

\* C24 witness: an issued token presented after the end of its lifetime is
\* refused.
C24_Witness ==
    \E r \in Slots :
        /\ req[r].token # None
        /\ Unwrap(req[r].token) \in client_tokens
        /\ now * MillisPerSecond >
              Unwrap(req[r].token).claims.valid_since + default_token_duration * MillisPerSecond
        /\ Answered(r, 401)

\* C26: the first rule, in load order, whose public path is a prefix of the
\* request path decides alone: when the segments do not match its argument
\* count the request is answered 400, whether or not a later rule would
\* translate the path, and otherwise the path is translated by it; 404 is
\* answered exactly when no rule's public path is a prefix.
C26_FirstMatchDecides ==
    \A r \in Slots :
        Translated(r) =>
            /\ \A i \in RuleIds :
                  FirstMatch(r, i) =>
                      /\ req[r].rule = i
                      /\ IF SuppliesExactly(r, i)
                         THEN TranslatedBy(r, i)
                         ELSE Answered(r, 400) /\ req[r].url = None
            /\ Answered(r, 404) <=> (\A i \in RuleIds : Remainder(r, i) = None)

\* C26 witness: the path p/ is answered 400 by the rule p although the later
\* rule p/ would translate it.
C26_Witness ==
    \E r \in Slots :
        /\ req[r].path = <<"p", "/">>
        /\ SuppliesExactly(r, 2)
        /\ req[r].rule = 1
        /\ Answered(r, 400)

\* C30: for the paths under the proxied prefix authentication runs before any
\* rule is matched: the identity call is made also for a path no rule matches,
\* a request that fails authentication has no rule and is answered 400 or
\* 401, and 404 is answered only to a request with a principal.
C30_AuthBeforeRouting ==
    \A r \in Slots :
        /\ (/\ ~allow_anonymous /\ req[r].pc \notin {"idle", "agent"}
            /\ strip_prefix(req[r].uri, HypixelPrefix) # None
            /\ req[r].token = None
            /\ req[r].username # None /\ req[r].serverid # None
            /\ ~(req[r].pc = "done" /\ req[r].mojang_calls = 0)) =>
              req[r].mojang_calls = 1
        /\ (/\ req[r].principal = None /\ req[r].pc \notin {"idle", "agent"}
            /\ strip_prefix(req[r].uri, HypixelPrefix) # None) =>
              /\ req[r].rule = 0 /\ req[r].url = None
              /\ (req[r].pc = "done" /\ (req[r].mojang_calls = 1 \/ ~Answered(r, 500))) =>
                    Unwrap(req[r].response).status \in {400, 401}
        /\ (Answered(r, 404) /\ strip_prefix(req[r].uri, HypixelPrefix) # None) =>
              req[r].principal # None

\* The value of the key k before the step, 0 when there is no such key.
UsageBefore(k) == IF ratelimit[k] = None THEN 0 ELSE Unwrap(ratelimit[k]).value

ZScore(zset, member) == IF member \in DOMAIN zset THEN zset[member] ELSE 0

\* The sum of the scores of the members in S.
RECURSIVE ZScoreSum(_, _)
ZScoreSum(zset, S) ==
    IF S = {} THEN 0
    ELSE LET m == CHOOSE x \in S : TRUE
         IN  zset[m] + ZScoreSum(zset, S \ {m})

\* C28: the pipeline of a request raises the usage of the principal's bucket,
\* the request counter of the rule for the statistics key and the accumulated
\* counter of the rule by exactly one, whether the request is admitted or
\* rejected or does not read the replies; no other step changes a counter, so
\* the accumulated counter of a rule is the number of pipelines the store ran
\* for it and never decreases.
C28_EveryPipelineCountsOnce ==
    [][/\ \A r \in Slots :
             PipelineRuns(r) =>
                 /\ Unwrap(ratelimit'[BucketOf(r)]).value = UsageBefore(BucketOf(r)) + 1
                 /\ hypixel_accumulated' =
                       [hypixel_accumulated EXCEPT ![req[r].rule] = @ + 1]
                 /\ ZScore(hypixel_request'[req[r].rule], req[r].diagnostics_key) =
                       ZScore(hypixel_request[req[r].rule], req[r].diagnostics_key) + 1
                 /\ \A i \in RuleIds : \A m \in DOMAIN hypixel_request'[i] :
                       (i # req[r].rule \/ m # req[r].diagnostics_key) =>
                           ZScore(hypixel_request'[i], m) = ZScore(hypixel_request[i], m)
       /\ (\A r \in Slots : ~PipelineRuns(r)) =>
             /\ UNCHANGED <<hypixel_accumulated, hypixel_request>>
             /\ \A k \in BucketKeys : ratelimit'[k] = ratelimit[k] \/ ratelimit'[k] = None
       /\ \A i \in RuleIds :
             /\ hypixel_accumulated'[i] >= hypixel_accumulated[i]
             /\ hypixel_accumulated'[i] =
                   ZScoreSum(hypixel_request'[i], DOMAIN hypixel_request'[i])]_vars

\* C28 witness: a request is rejected with usage 3, after a rejection with
\* usage 2, its rule's request counter for its statistics key being 2.
C28_Witness ==
    \E r \in Slots :
        /\ Answered(r, 429)
        /\ LastRead(BucketOf(r)).usage = 3
        /\ bucket_log[BucketOf(r)][2].rejected
        /\ ZScore(hypixel_request[req[r].rule], req[r].diagnostics_key) = 2
        /\ hypixel_accumulated[1] + hypixel_accumulated[3] = 3

\* The path is not translated: no rule's public path is a prefix of it, or
\* it does not supply as many segments as the first such rule has arguments.
FailsTranslation(path) ==
    \/ \A i \in RuleIds : strip_prefix(path, rules[i].http_path) = None
    \/ \E i \in RuleIds :
          /\ strip_prefix(path, rules[i].http_path) # None
          /\ \A j \in 1..(i - 1) : strip_prefix(path, rules[j].http_path) = None
          /\ Len(path_parts(Unwrap(strip_prefix(path, rules[i].http_path)))) #
                Len(rules[i].query_arguments)

\* C29: a request whose path is not translated never reaches the pipeline or
\* the upstream, and no step of it changes a bucket's usage or expiry, a
\* rule's request counter or a rule's accumulated counter; past
\* authentication it is answered 400 or 404.
C29_FailedTranslationIsFree ==
    [][\A r \in Slots :
          (/\ req'[r].pc # "idle"
           /\ strip_prefix(req'[r].uri, HypixelPrefix) # None
           /\ FailsTranslation(Unwrap(strip_prefix(req'[r].uri, HypixelPrefix)))) =>
              /\ req'[r].pc \in {"agent", "mojang", "mojang_body", "done"}
              /\ req'[r].upstream_calls = 0
              /\ req'[r] # req[r] =>
                    UNCHANGED <<ratelimit, hypixel_request, hypixel_accumulated>>
              /\ (req'[r].pc = "done" /\ req'[r].principal # None) =>
                    Unwrap(req'[r].response).status \in {400, 404}]_vars

\* C29 witness: a request with a superfluous segment is answered 400 while
\* the bucket of its principal holds 1 and the counter of its rule is 1.
C29_Witness ==
    \E r \in Slots :
        /\ Answered(r, 400)
        /\ req[r].path = <<"p", "/", "x", "/", "y">>
        /\ ratelimit[BucketOf(r)] # None
        /\ Unwrap(ratelimit[BucketOf(r)]).value = 1
        /\ hypixel_accumulated[1] = 1

\* C31: reusing a token never extends its validity.  With anonymous mode
\* disabled a request that presents a token after the token's valid_until is
\* refused without a call of the identity service, and one that is accepted
\* has the token's claims as its principal and the refresh-expiry directive
\* with the token's valid_until; the response to a request that presented a
\* token carries no x-ursa-token, its x-ursa-expires, if any, is the
\* valid_until of the presented token, and its delivery gives the client no
\* new token.
C31_ReuseNeverExtends ==
    [][\A r \in Slots :
          /\ (~allow_anonymous /\ Authenticates(r) /\ req'[r].token # None) =>
                LET claims == Unwrap(req'[r].token).claims
                IN  /\ now * MillisPerSecond > claims.valid_until =>
                          /\ req'[r].principal = None
                          /\ req'[r].pc = "done"
                          /\ Unwrap(req'[r].response).status = 401
                          /\ req'[r].mojang_calls = 0
                    /\ req'[r].principal # None =>
                          /\ req'[r].principal = Some(claims)
                          /\ req'[r].save = SaveExpires(claims.valid_until)
                          /\ req'[r].mojang_calls = 0
          /\ (req[r].pc = "done" /\ req'[r].pc = "idle" /\ req[r].token # None) =>
                LET response == Unwrap(req[r].response)
                    claims == Unwrap(req[r].token).claims
                IN  /\ client_tokens' = client_tokens
                    /\ response.x_ursa_token = None
                    /\ response.x_ursa_expires \in {None, Some(to_string(claims.valid_until))}
                    /\ (req[r].saved = 1 /\ req[r].save.kind = "SaveExpires") =>
                          response.x_ursa_expires = Some(to_string(claims.valid_until))]_vars

\* C31 witness: a token the proxy issued is presented again at the very end
\* of its validity, and the response carries that same valid_until and no
\* token.
C31_Witness ==
    \E r \in Slots :
        /\ req[r].pc = "done"
        /\ req[r].token # None
        /\ Unwrap(req[r].token) \in client_tokens
        /\ now * MillisPerSecond = Unwrap(req[r].token).claims.valid_until
        /\ now * MillisPerSecond > Unwrap(req[r].token).claims.valid_since
        /\ req[r].saved = 1
        /\ Unwrap(req[r].response).x_ursa_token = None
        /\ Unwrap(req[r].response).x_ursa_expires =
              Some(to_string(Unwrap(req[r].token).claims.valid_until))

====
